---- MODULE Spec2Model ----
(***************************************************************************)
(* KThreadPool (src/kthreadpool.hpp): a fixed set of worker threads that   *)
(* share one mutex-guarded vector of pending jobs, together with the three *)
(* ways the pool is driven: ad-hoc submission followed by WaitForFinish    *)
(* and destruction (src/test.cpp, main), Iterate, and IterateWeighted.     *)
(*                                                                         *)
(* Granularity.  Every critical section under QueueMutex is one atomic    *)
(* step; every access to one of the two atomics (ActiveJobCount,           *)
(* bDestroyingPool) is one atomic step; code that touches only data local *)
(* to the calling thread is folded into the neighbouring step.  SpecMutex  *)
(* runs the ad-hoc program one level finer: taking QueueMutex is a step of *)
(* its own, and the critical section with the release that ends it is the  *)
(* next.  Weights are doubles and are summed, divided and compared as      *)
(* binary64 does it; SpecScan runs IterateWeighted up to its scan.         *)
(***************************************************************************)
EXTENDS Integers, Sequences, FiniteSets

\* ------------------------------------------------------------------ bounds

\* largest thread-count request, default thread count and host core count tried
MaxThreads == 2
\* largest number of jobs one ad-hoc run creates (submitted plus spawned)
MaxJobs == 2
\* largest sequence length handed to Iterate / IterateWeighted
MaxLen == 3
\* largest weight the weight function returns for one element
MaxWeight == 2
\* most elements handed to IterateWeighted when only its scan is run
MaxScanLen == 4

VARIABLES
    count,              \* KThreadPool(count): the constructor's argument
    DefaultThreadCount, \* static KThreadPool::DefaultThreadCount
    cores,              \* what GetCpuCoreCount() returns on this host
    poolSize,           \* the poolSize argument of Iterate / IterateWeighted
    elementCount,       \* the elementCount argument
    weights,            \* weights[i+1] = weightFunc(&data[i]), a double
    Threads,            \* Threads.size(): workers are 1..Threads
    wpc,                \* position of each worker in waitForJob / TakeNewJob
    wjob,               \* TakeNewJob's local `job` of each worker (0 = nullptr)
    PendingJobs,        \* the queue: a sequence of job ids
    QueueMutex,         \* who holds the mutex: 0 nobody, t worker t, -1 the caller
    ActiveJobCount,
    bDestroyingPool,
    jobs,               \* every ThreadJob created so far, indexed by job id
    invoked,            \* invoked[i+1] = number of calls of func on index i
    sections,           \* IterateWeighted's sections vector
    sectionIndex,       \* IterateWeighted's sectionIndex after the scan
    oob,                \* the scan wrote sections[sectionIndex] past the end
    pc,                 \* position of the calling thread
    k                   \* the calling thread's loop index

vars == <<count, DefaultThreadCount, cores, poolSize, elementCount, weights,
          Threads, wpc, wjob, PendingJobs, QueueMutex, ActiveJobCount, bDestroyingPool,
          jobs, invoked, sections, sectionIndex, oob, pc, k>>

inputVars == <<count, DefaultThreadCount, cores, poolSize, elementCount, weights>>
poolVars == <<Threads, wpc, wjob, PendingJobs, ActiveJobCount, bDestroyingPool>>
scanVars == <<sections, sectionIndex, oob>>

\* ------------------------------------------------------------- pure parts

Min(a, b) == IF a <= b THEN a ELSE b
Max(a, b) == IF a >= b THEN a ELSE b

\* (variant) the constructor without its `if (count <= 0) count = 1`
ResolveThreadCountUnclamped(cnt, dflt, cpu) ==
    IF cnt = 0 THEN (IF dflt = 0 THEN cpu ELSE dflt) ELSE cnt

\* KThreadPool::KThreadPool, the thread count it settles on
ResolveThreadCount(cnt, dflt, cpu) ==
    LET c1 == IF cnt = 0 THEN (IF dflt = 0 THEN cpu ELSE dflt) ELSE cnt
    IN  IF c1 <= 0 THEN 1 ELSE c1

\* `poolSize > elementCount` compares an int with a size_t: the int is converted
\* to the 64-bit unsigned type first, so a negative poolSize becomes a value of
\* at least 2^64 - 2^31, which is greater than every elementCount tried here.
SizeTGreater(p, n) == IF p < 0 THEN TRUE ELSE p > n

\* the value handed to the ephemeral pool's constructor by Iterate and
\* IterateWeighted
IterPoolSize(req, cpu, n) ==
    LET p1 == IF req = 0 THEN cpu ELSE req
    IN  IF SizeTGreater(p1, n) THEN n ELSE p1

\* a ThreadJob: what its Function does (kind, Start, End), its bDeleteOnFinish
\* flag, and how often it has been executed and deleted
Job(kind, s, e, del) ==
    [kind |-> kind, Start |-> s, End |-> e, bDeleteOnFinish |-> del,
     runs |-> 0, frees |-> 0]

\* (variant) the job at the front is picked instead
TakenIndexFront(q) == 1

\* the job TakeNewJob picks: the one at the last index
TakenIndex(q) == Len(q)

\* (variant) the claimed job is left in the queue
EraseNothing(q, i) == q

\* PendingJobs.erase(PendingJobs.begin() + index)
Erase(q, i) == SubSeq(q, 1, i - 1) \o SubSeq(q, i + 1, Len(q))

\* (variant) the claim leaves ActiveJobCount alone
ClaimedUncounted(n) == n

\* ActiveJobCount++ inside TakeNewJob's critical section
Claimed(n) == n + 1

\* the loop condition of WaitForFinish, evaluated left to right:
\* GetPendingJobCount() > 0
StillPending(n) == n > 0

\* (variant) the loop condition without its ActiveJobCount operand
StillActiveUnchecked(n) == FALSE

\* ... || ActiveJobCount > 0
StillActive(n) == n > 0

\* (variant) the worker's test of IsPendingDestroy the wrong way round
ExitsOnInverted(destroying) == ~destroying

\* (variant) the loop returns on any failed dequeue
ExitsOnAlways(destroying) == TRUE

\* the worker's decision after TakeNewJob returned false
ExitsOn(destroying) == destroying

Workers == 1..Threads

\* --------------------------------------------------------- worker threads

\* TakeNewJob, the block under QueueMutex
TakeNewJob(t) ==
    /\ t \in Workers
    /\ wpc[t] = "take"
    /\ IF Len(PendingJobs) > 0
       THEN /\ wjob' = [wjob EXCEPT ![t] = PendingJobs[TakenIndex(PendingJobs)]]
            /\ PendingJobs' = Erase(PendingJobs, TakenIndex(PendingJobs))
            /\ ActiveJobCount' = Claimed(ActiveJobCount)
            /\ wpc' = [wpc EXCEPT ![t] = "exec"]
       ELSE /\ wpc' = [wpc EXCEPT ![t] = "check"]
            /\ UNCHANGED <<wjob, PendingJobs, ActiveJobCount>>
    /\ UNCHANGED <<QueueMutex, inputVars, Threads, bDestroyingPool, jobs, invoked,
                   scanVars, pc, k>>

\* the calls of func made by a job over the indexes Start .. End-1
Invoke(inv, s, e) ==
    [i \in 1..Len(inv) |-> IF s + 1 <= i /\ i <= e THEN inv[i] + 1 ELSE inv[i]]

\* a job body that submits one more job to its own pool: AddFunctionToPool
ExecuteSpawn(t) ==
    /\ t \in Workers
    /\ wpc[t] = "exec"
    /\ jobs[wjob[t]].kind = "spawn"
    /\ jobs' = Append(jobs, Job("plain", 0, 0, TRUE))
    /\ PendingJobs' = Append(PendingJobs, Len(jobs) + 1)
    /\ wpc' = [wpc EXCEPT ![t] = "body"]
    /\ UNCHANGED <<QueueMutex, inputVars, Threads, wjob, ActiveJobCount, bDestroyingPool,
                   invoked, scanVars, pc, k>>

\* ThreadJob::Execute: std::apply(Function, Args), then delete this when
\* bDeleteOnFinish
Execute(t) ==
    /\ t \in Workers
    /\ wpc[t] \in {"exec", "body"}
    /\ wpc[t] = "exec" => jobs[wjob[t]].kind # "spawn"
    /\ LET j == wjob[t]
           job == jobs[j]
       IN  /\ jobs' = [jobs EXCEPT ![j].runs = @ + 1,
                                   ![j].frees = IF job.bDeleteOnFinish THEN @ + 1 ELSE @]
           /\ invoked' = IF job.kind \in {"elem", "section"}
                         THEN Invoke(invoked, job.Start, job.End)
                         ELSE invoked
    /\ wpc' = [wpc EXCEPT ![t] = "dec"]
    /\ UNCHANGED <<QueueMutex, inputVars, Threads, wjob, PendingJobs, ActiveJobCount,
                   bDestroyingPool, scanVars, pc, k>>

\* TakeNewJob after Execute returned: ActiveJobCount--, return true
Finish(t) ==
    /\ t \in Workers
    /\ wpc[t] = "dec"
    /\ ActiveJobCount' = ActiveJobCount - 1
    /\ wjob' = [wjob EXCEPT ![t] = 0]
    /\ wpc' = [wpc EXCEPT ![t] = "take"]
    /\ UNCHANGED <<QueueMutex, inputVars, Threads, PendingJobs, bDestroyingPool, jobs, invoked,
                   scanVars, pc, k>>

\* waitForJob after TakeNewJob returned false: leave when the pool is pending
\* destroy, otherwise rest and try again
CheckDestroy(t) ==
    /\ t \in Workers
    /\ wpc[t] = "check"
    /\ wpc' = [wpc EXCEPT ![t] = IF ExitsOn(bDestroyingPool) THEN "done" ELSE "take"]
    /\ UNCHANGED <<QueueMutex, inputVars, Threads, wjob, PendingJobs, ActiveJobCount,
                   bDestroyingPool, jobs, invoked, scanVars, pc, k>>

\* waitForJob running a job whose body may submit to the pool
Worker(t) == TakeNewJob(t) \/ ExecuteSpawn(t) \/ Execute(t) \/ Finish(t) \/ CheckDestroy(t)

\* waitForJob inside Iterate and IterateWeighted, whose jobs only call func
IterWorker(t) == TakeNewJob(t) \/ Execute(t) \/ Finish(t) \/ CheckDestroy(t)

\* ------------------------------------------------------ the calling thread

\* the constructor's loop that starts the worker threads
Spawn(n) ==
    /\ Threads' = n
    /\ wpc' = [t \in 1..n |-> "take"]
    /\ wjob' = [t \in 1..n |-> 0]

\* KThreadPool pool(count), as in main
Construct ==
    /\ pc = "start"
    /\ Spawn(ResolveThreadCount(count, DefaultThreadCount, cores))
    /\ pc' = "run"
    /\ UNCHANGED <<QueueMutex, inputVars, PendingJobs, ActiveJobCount, bDestroyingPool, jobs,
                   invoked, scanVars, k>>

\* AddFunctionToPool: new ThreadJob(func, args...), then AddJobToPool
AddFunctionToPool ==
    /\ pc = "run"
    /\ Len(jobs) < MaxJobs
    /\ \E kind \in {"plain", "spawn"} :
          /\ kind = "spawn" => Len(jobs) + 1 < MaxJobs
          /\ jobs' = Append(jobs, Job(kind, 0, 0, TRUE))
    /\ PendingJobs' = Append(PendingJobs, Len(jobs) + 1)
    /\ UNCHANGED <<QueueMutex, inputVars, Threads, wpc, wjob, ActiveJobCount, bDestroyingPool,
                   invoked, scanVars, pc, k>>

\* WaitForFinish is called
CallWaitForFinish ==
    /\ pc = "run"
    /\ pc' = "wait_pending"
    /\ UNCHANGED <<QueueMutex, inputVars, poolVars, jobs, invoked, scanVars, k>>

\* WaitForFinish: GetPendingJobCount() > 0, read under QueueMutex
WaitPending ==
    /\ pc = "wait_pending"
    /\ pc' = IF StillPending(Len(PendingJobs)) THEN "wait_pending" ELSE "wait_active"
    /\ UNCHANGED <<QueueMutex, inputVars, poolVars, jobs, invoked, scanVars, k>>

\* WaitForFinish: ActiveJobCount > 0, read once the queue was seen empty
WaitActive ==
    /\ pc = "wait_active"
    /\ pc' = IF StillActive(ActiveJobCount) THEN "wait_pending" ELSE "waited"
    /\ UNCHANGED <<QueueMutex, inputVars, poolVars, jobs, invoked, scanVars, k>>

\* ~KThreadPool: bDestroyingPool = true
Destroy ==
    /\ pc \in {"run", "waited", "destroy"}
    /\ bDestroyingPool' = TRUE
    /\ pc' = "join"
    /\ k' = 1
    /\ UNCHANGED <<QueueMutex, inputVars, Threads, wpc, wjob, PendingJobs, ActiveJobCount, jobs,
                   invoked, scanVars>>

\* (variant) join() returns while the thread is still in its loop
JoinsRunning(state) == TRUE

\* t.join() returns once the thread function of t has returned
Joinable(state) == state = "done"

\* ~KThreadPool: t.join() for the next thread, which has to have returned
Join ==
    /\ pc = "join"
    /\ k <= Threads
    /\ Joinable(wpc[k])
    /\ k' = k + 1
    /\ pc' = IF k = Threads THEN "joined" ELSE "join"
    /\ UNCHANGED <<QueueMutex, inputVars, poolVars, jobs, invoked, scanVars>>

\* ---------------------------------------------------------------- Iterate

\* Iterate: poolSize is settled and KThreadPool pool(poolSize) starts the workers
IterConstruct ==
    /\ pc = "start"
    /\ count' = IterPoolSize(poolSize, cores, elementCount)
    /\ Spawn(ResolveThreadCount(count', DefaultThreadCount, cores))
    /\ pc' = "built"
    /\ UNCHANGED <<QueueMutex, DefaultThreadCount, cores, poolSize, elementCount, weights,
                   PendingJobs, ActiveJobCount, bDestroyingPool, jobs, invoked,
                   scanVars, k>>

\* Iterate: one Job per element, bDeleteOnFinish = false, all pushed onto
\* pool.PendingJobs under one lock_guard
IterEnqueue ==
    /\ pc = "built"
    /\ jobs' = [i \in 1..elementCount |-> Job("elem", i - 1, i, FALSE)]
    /\ PendingJobs' = PendingJobs \o [i \in 1..elementCount |-> i]
    /\ pc' = "destroy"
    /\ UNCHANGED <<QueueMutex, inputVars, Threads, wpc, wjob, ActiveJobCount, bDestroyingPool,
                   invoked, scanVars, k>>

\* Iterate / IterateWeighted return once the pool's destructor has returned
Return ==
    /\ pc = "joined"
    /\ pc' = "returned"
    /\ UNCHANGED <<QueueMutex, inputVars, poolVars, jobs, invoked, scanVars, k>>

\* -------------------------------------------------------- IterateWeighted

\* A double is kept as its exact value: <<i, f1, f2>> stands for
\* i + f1 / 2^30 + f2 / 2^60, three limbs of 30 bits.  Every double from 2^-8
\* up to 2^22 is such a value, and on that range the operators below compute
\* what IEEE 754 binary64 computes with round-to-nearest, ties-to-even.

\* one limb holds 30 bits
Limb == 1073741824

\* half a limb, the digit of the long division
HalfLimb == 32768

\* bits in the significand of a double
Significand == 53

\* 0.0
Zero == <<0, 0, 0>>

\* the double for a small non-negative integer
Double(i) == <<i, 0, 0>>

\* the double nearest to 0.7, 0x1.6666666666666p-1
SevenTenths == <<0, 751619276, 858993408>>

RECURSIVE Bits(_)
\* the length of x in bits
Bits(x) == IF x = 0 THEN 0 ELSE 1 + Bits(x \div 2)

RECURSIVE Pow2(_)
Pow2(e) == IF e = 0 THEN 1 ELSE 2 * Pow2(e - 1)

\* the length in bits of a value counted in units of 2^-60
BitLength(d) ==
    IF d[1] > 0 THEN 60 + Bits(d[1])
    ELSE IF d[2] > 0 THEN 30 + Bits(d[2])
    ELSE Bits(d[3])

\* a + b, exact
Sum(a, b) ==
    LET lo  == a[3] + b[3]
        mid == a[2] + b[2] + (lo \div Limb)
    IN  <<a[1] + b[1] + (mid \div Limb), mid % Limb, lo % Limb>>

\* a <= b
Leq(a, b) ==
    \/ a[1] < b[1]
    \/ a[1] = b[1] /\ a[2] < b[2]
    \/ a[1] = b[1] /\ a[2] = b[2] /\ a[3] <= b[3]

\* the value d, plus less than one unit when sticky, rounded to the nearest
\* value with a significand of 53 bits, to the even one on a tie
Round(d, sticky) ==
    LET e == BitLength(d) - Significand
    IN  IF e <= 0 THEN d
        ELSE LET g    == Pow2(e)
                 r    == d[3] % g
                 down == <<d[1], d[2], d[3] - r>>
             IN  IF \/ 2 * r > g
                    \/ 2 * r = g /\ (sticky \/ (d[3] \div g) % 2 = 1)
                 THEN Sum(down, <<0, 0, g>>)
                 ELSE down

\* operator+ of double
FAdd(a, b) == Round(Sum(a, b), FALSE)

\* one step of the long division by n: the limb l under the remainder r
DivLimb(r, l, n) ==
    LET t1 == (r * HalfLimb) + (l \div HalfLimb)
        t2 == ((t1 % n) * HalfLimb) + (l % HalfLimb)
    IN  [q |-> ((t1 \div n) * HalfLimb) + (t2 \div n), r |-> t2 % n]

\* operator/ of double by the double of a thread count n
FDiv(d, n) ==
    LET a == DivLimb(0, d[1], n)
        b == DivLimb(a.r, d[2], n)
        c == DivLimb(b.r, d[3], n)
        q == <<a.q, b.q, c.q>>
    IN  IF BitLength(q) > Significand THEN Round(q, c.r > 0)
        ELSE IF 2 * c.r > n \/ (2 * c.r = n /\ c.q % 2 = 1)
             THEN Sum(q, <<0, 0, 1>>)
             ELSE q

RECURSIVE SumTo(_, _)
\* the loop `total += weightFunc(&data[i])` up to the i-th element
SumTo(w, i) == IF i = 0 THEN Zero ELSE FAdd(SumTo(w, i - 1), w[i])

Total(w) == SumTo(w, Len(w))

\* accumWeight + objWeight <= targetWeight, with targetWeight = total / n
WithinTarget(sum, total, n) == Leq(sum, FDiv(total, n))

\* what IterSection::End holds for a section closed at index i
ClosedEnd(i) == i

\* one pass of the scan's loop body for index i (0-based), on the scan's locals
ScanStep(s, w, i, total, n) ==
    IF i < Len(w) - 1 /\ WithinTarget(FAdd(s.accumWeight, w[i + 1]), total, n)
    THEN [s EXCEPT !.accumWeight = FAdd(@, w[i + 1])]
    ELSE [sections |-> IF s.sectionIndex < Len(s.sections)
                       THEN [s.sections EXCEPT ![s.sectionIndex + 1] =
                                [Start |-> s.newStart, End |-> ClosedEnd(i)]]
                       ELSE s.sections,
          oob |-> s.oob \/ s.sectionIndex >= Len(s.sections),
          accumWeight |-> Zero,
          newStart |-> i + 1,
          sectionIndex |-> s.sectionIndex + 1]

RECURSIVE ScanFrom(_, _, _, _, _)
ScanFrom(s, w, i, total, n) ==
    IF i >= Len(w) THEN s
    ELSE LET next == ScanStep(s, w, i, total, n)
         IN  \* a write past the end of `sections` is undefined behaviour: the
             \* scan is followed no further
             IF next.oob THEN next ELSE ScanFrom(next, w, i + 1, total, n)

\* the scan of IterateWeighted over all elements, from value-initialised sections
Scan(w, n) ==
    ScanFrom([sections |-> [x \in 1..n |-> [Start |-> 0, End |-> 0]],
              oob |-> FALSE, accumWeight |-> Zero, newStart |-> 0, sectionIndex |-> 0],
             w, 0, Total(w), n)

\* IterateWeighted: total weight, pool sizing, KThreadPool pool(poolSize)
WeightedConstruct ==
    /\ pc = "start"
    /\ count' = IterPoolSize(poolSize, cores, elementCount)
    /\ Spawn(ResolveThreadCount(count', DefaultThreadCount, cores))
    /\ pc' = "built"
    /\ UNCHANGED <<QueueMutex, DefaultThreadCount, cores, poolSize, elementCount, weights,
                   PendingJobs, ActiveJobCount, bDestroyingPool, jobs, invoked,
                   scanVars, k>>

\* IterateWeighted: targetWeight, sections(pool.Threads.size()) and the scan
WeightedScan ==
    /\ pc = "built"
    /\ LET s == Scan(weights, Threads)
       IN  /\ sections' = s.sections
           /\ sectionIndex' = s.sectionIndex
           /\ oob' = s.oob
    /\ pc' = "submit"
    /\ k' = 1
    /\ UNCHANGED <<QueueMutex, inputVars, poolVars, jobs, invoked>>

\* IterateWeighted: pool.AddFunctionToPool(iterSection, ..., section.Start,
\* section.End, ...) for the next section
WeightedSubmit ==
    /\ pc = "submit"
    /\ k <= Len(sections)
    /\ jobs' = Append(jobs, Job("section", sections[k].Start, sections[k].End, TRUE))
    /\ PendingJobs' = Append(PendingJobs, Len(jobs) + 1)
    /\ k' = k + 1
    /\ pc' = IF k = Len(sections) THEN "destroy" ELSE "submit"
    /\ UNCHANGED <<QueueMutex, inputVars, Threads, wpc, wjob, ActiveJobCount, bDestroyingPool,
                   invoked, scanVars>>

\* ------------------------------------------------------------ ad-hoc runs

Counts == -1..MaxThreads

\* (variant) the member initialiser sets the flag
bDestroyingPoolSet == TRUE

\* std::atomic<bool> bDestroyingPool { false }
bDestroyingPoolDefault == FALSE

InitCommon ==
    /\ Threads = 0
    /\ wpc = <<>>
    /\ wjob = <<>>
    /\ PendingJobs = <<>>
    /\ QueueMutex = 0
    /\ ActiveJobCount = 0
    /\ bDestroyingPool = bDestroyingPoolDefault
    /\ jobs = <<>>
    /\ sections = <<>>
    /\ sectionIndex = 0
    /\ oob = FALSE
    /\ pc = "start"
    /\ k = 0

Init ==
    /\ InitCommon
    /\ count \in Counts
    /\ DefaultThreadCount = 0
    /\ cores \in 1..MaxThreads
    /\ poolSize = 0
    /\ elementCount = 0
    /\ weights = <<>>
    /\ invoked = <<>>

Next ==
    \/ \E t \in 1..MaxThreads : Worker(t)
    \/ Construct
    \/ AddFunctionToPool
    \/ CallWaitForFinish
    \/ WaitPending
    \/ WaitActive
    \/ Destroy
    \/ Join

Spec == Init /\ [][Next]_vars

\* every thread that can take a step eventually takes one
Fairness ==
    /\ \A t \in 1..MaxThreads : WF_vars(Worker(t))
    /\ WF_vars(Join)

FairSpec == Spec /\ Fairness

\* ------------------------------------------------------------ Iterate runs

\* requests tried: 0 (use the core count), 1..MaxThreads, and a negative one
PoolSizeRequested(p) == p \in 0..MaxThreads \/ p = -1

InitIterate ==
    /\ InitCommon
    /\ count = 0
    /\ DefaultThreadCount = 0
    /\ cores \in 1..MaxThreads
    /\ PoolSizeRequested(poolSize)
    /\ elementCount \in 0..MaxLen
    /\ weights = <<>>
    /\ invoked = [i \in 1..elementCount |-> 0]

\* a negative poolSize makes Iterate start one worker per element
IterThreadIds == 1..Max(MaxThreads, MaxLen)

NextIterate ==
    \/ \E t \in IterThreadIds : IterWorker(t)
    \/ IterConstruct
    \/ IterEnqueue
    \/ Destroy
    \/ Join
    \/ Return

SpecIterate == InitIterate /\ [][NextIterate]_vars

\* ---------------------------------------------------- IterateWeighted runs

\* the scenario of ten integers 0..9 with weight = value + 1 and three workers
ScenarioWeights == [i \in 1..10 |-> Double(i)]

InitWeighted ==
    /\ InitCommon
    /\ count = 0
    /\ DefaultThreadCount = 0
    /\ \/ /\ cores \in 1..MaxThreads
          /\ PoolSizeRequested(poolSize)
          /\ elementCount \in 0..MaxLen
          /\ weights \in [1..elementCount -> {Double(i) : i \in 0..MaxWeight}]
       \/ /\ cores = 1
          /\ poolSize = 3
          /\ elementCount = 10
          /\ weights = ScenarioWeights
    /\ invoked = [i \in 1..elementCount |-> 0]

\* as in Iterate; the scenario runs three workers, whatever the bounds are
WeightedThreadIds == 1..Max(Max(MaxThreads, MaxLen), 3)

NextWeighted ==
    \/ \E t \in WeightedThreadIds : IterWorker(t)
    \/ WeightedConstruct
    \/ WeightedScan
    \/ WeightedSubmit
    \/ Destroy
    \/ Join
    \/ Return

SpecWeighted == InitWeighted /\ [][NextWeighted]_vars

\* ------------------------------------------- construction and destruction

\* waitForJob in a pool that is never given a job
IdleWorker(t) == TakeNewJob(t) \/ CheckDestroy(t)

\* { KThreadPool pool(count); } for every count, with DefaultThreadCount set by
\* the program beforehand and on hosts whose core count may be unknown (0)
InitConstruct ==
    /\ InitCommon
    /\ count \in Counts
    /\ DefaultThreadCount \in -1..MaxThreads
    /\ cores \in 0..MaxThreads
    /\ poolSize = 0
    /\ elementCount = 0
    /\ weights = <<>>
    /\ invoked = <<>>

NextConstruct ==
    \/ \E t \in 1..MaxThreads : IdleWorker(t)
    \/ Construct
    \/ Destroy
    \/ Join

SpecConstruct == InitConstruct /\ [][NextConstruct]_vars

\* ------------------------------------------- IterateWeighted, the scan alone

\* the weights the weight function returns here: 0.0, 0.7 and 1.0
ScanWeights == {Zero, SevenTenths, Double(1)}

InitScan ==
    /\ InitCommon
    /\ count = 0
    /\ DefaultThreadCount = 0
    /\ cores \in 1..MaxThreads
    /\ poolSize \in 0..MaxScanLen \/ poolSize = -1
    /\ elementCount \in 0..MaxScanLen
    /\ weights \in [1..elementCount -> ScanWeights]
    /\ invoked = [i \in 1..elementCount |-> 0]

NextScan ==
    \/ WeightedConstruct
    \/ WeightedScan

SpecScan == InitScan /\ [][NextScan]_vars

\* ------------------------------------------------ ad-hoc runs, lock by lock

\* the caller's id as holder of QueueMutex
Caller == -1

\* (variant) the lock_guard of TakeNewJob lives to the end of the function
HeldThroughExecute(t) == t

\* the holder of QueueMutex once TakeNewJob's inner block has closed
ReleasedAfterClaim(t) == 0

\* TakeNewJob: std::lock_guard<std::mutex> lock(QueueMutex)
LockTake(t) ==
    /\ t \in Workers
    /\ wpc[t] = "take"
    /\ QueueMutex = 0
    /\ QueueMutex' = t
    /\ wpc' = [wpc EXCEPT ![t] = "locked_take"]
    /\ UNCHANGED <<inputVars, Threads, wjob, PendingJobs, ActiveJobCount,
                   bDestroyingPool, jobs, invoked, scanVars, pc, k>>

\* TakeNewJob: the block under the lock, and the end of the block
TakeUnderLock(t) ==
    /\ t \in Workers
    /\ wpc[t] = "locked_take"
    /\ QueueMutex = t
    /\ IF Len(PendingJobs) > 0
       THEN /\ wjob' = [wjob EXCEPT ![t] = PendingJobs[TakenIndex(PendingJobs)]]
            /\ PendingJobs' = Erase(PendingJobs, TakenIndex(PendingJobs))
            /\ ActiveJobCount' = Claimed(ActiveJobCount)
            /\ wpc' = [wpc EXCEPT ![t] = "exec"]
       ELSE /\ wpc' = [wpc EXCEPT ![t] = "check"]
            /\ UNCHANGED <<wjob, PendingJobs, ActiveJobCount>>
    /\ QueueMutex' = ReleasedAfterClaim(t)
    /\ UNCHANGED <<inputVars, Threads, bDestroyingPool, jobs, invoked, scanVars, pc, k>>

\* AddJobToPool called from a job body: the lock_guard
LockSpawn(t) ==
    /\ t \in Workers
    /\ wpc[t] = "exec"
    /\ jobs[wjob[t]].kind = "spawn"
    /\ QueueMutex = 0
    /\ QueueMutex' = t
    /\ wpc' = [wpc EXCEPT ![t] = "locked_spawn"]
    /\ UNCHANGED <<inputVars, Threads, wjob, PendingJobs, ActiveJobCount,
                   bDestroyingPool, jobs, invoked, scanVars, pc, k>>

\* AddJobToPool called from a job body: push_back and return
SpawnUnderLock(t) ==
    /\ t \in Workers
    /\ wpc[t] = "locked_spawn"
    /\ QueueMutex = t
    /\ jobs' = Append(jobs, Job("plain", 0, 0, TRUE))
    /\ PendingJobs' = Append(PendingJobs, Len(jobs) + 1)
    /\ QueueMutex' = 0
    /\ wpc' = [wpc EXCEPT ![t] = "body"]
    /\ UNCHANGED <<inputVars, Threads, wjob, ActiveJobCount, bDestroyingPool,
                   invoked, scanVars, pc, k>>

LockWorker(t) ==
    \/ LockTake(t)
    \/ TakeUnderLock(t)
    \/ LockSpawn(t)
    \/ SpawnUnderLock(t)
    \/ Execute(t)
    \/ Finish(t)
    \/ CheckDestroy(t)

\* AddFunctionToPool from the caller: new ThreadJob, AddJobToPool's lock_guard
LockAdd ==
    /\ pc = "run"
    /\ Len(jobs) < MaxJobs
    /\ QueueMutex = 0
    /\ QueueMutex' = Caller
    /\ pc' = "locked_add"
    /\ UNCHANGED <<inputVars, Threads, wpc, wjob, PendingJobs, ActiveJobCount,
                   bDestroyingPool, jobs, invoked, scanVars, k>>

\* AddJobToPool from the caller: push_back and return
AddUnderLock ==
    /\ pc = "locked_add"
    /\ QueueMutex = Caller
    /\ \E kind \in {"plain", "spawn"} :
          /\ kind = "spawn" => Len(jobs) + 1 < MaxJobs
          /\ jobs' = Append(jobs, Job(kind, 0, 0, TRUE))
    /\ PendingJobs' = Append(PendingJobs, Len(jobs) + 1)
    /\ QueueMutex' = 0
    /\ pc' = "run"
    /\ UNCHANGED <<inputVars, Threads, wpc, wjob, ActiveJobCount, bDestroyingPool,
                   invoked, scanVars, k>>

\* GetPendingJobCount inside WaitForFinish: the lock_guard
LockPending ==
    /\ pc = "wait_pending"
    /\ QueueMutex = 0
    /\ QueueMutex' = Caller
    /\ pc' = "locked_pending"
    /\ UNCHANGED <<inputVars, Threads, wpc, wjob, PendingJobs, ActiveJobCount,
                   bDestroyingPool, jobs, invoked, scanVars, k>>

\* GetPendingJobCount inside WaitForFinish: return PendingJobs.size()
PendingUnderLock ==
    /\ pc = "locked_pending"
    /\ QueueMutex = Caller
    /\ pc' = IF StillPending(Len(PendingJobs)) THEN "wait_pending" ELSE "wait_active"
    /\ QueueMutex' = 0
    /\ UNCHANGED <<inputVars, Threads, wpc, wjob, PendingJobs, ActiveJobCount,
                   bDestroyingPool, jobs, invoked, scanVars, k>>

NextMutex ==
    \/ \E t \in 1..MaxThreads : LockWorker(t)
    \/ Construct
    \/ LockAdd
    \/ AddUnderLock
    \/ CallWaitForFinish
    \/ LockPending
    \/ PendingUnderLock
    \/ WaitActive
    \/ Destroy
    \/ Join

SpecMutex == Init /\ [][NextMutex]_vars

\* ------------------------------------------------------------- properties

JobIds == 1..Len(jobs)
Indexes == 1..elementCount
Scanned == pc \notin {"start", "built"}

\* C1: when Iterate returns, func has been called exactly once for each index
\* of [0, elementCount).
C1_IterateCallsEachIndexOnce ==
    pc = "returned" => \A i \in Indexes : invoked[i] = 1

\* the half-open spans [Start, End) of secs lie end to end and cover [0, n)
IsPartition(secs, n) ==
    /\ Len(secs) > 0
    /\ secs[1].Start = 0
    /\ secs[Len(secs)].End = n
    /\ \A s \in 1..Len(secs) : secs[s].Start <= secs[s].End
    /\ \A s \in 1..(Len(secs) - 1) : secs[s].End = secs[s + 1].Start

\* C2: for elementCount > 0 the sections of IterateWeighted, read as the spans
\* [Start, End) their jobs iterate, are contiguous, disjoint and cover
\* [0, elementCount), and there are as many sections as worker threads.
C2_SectionsPartitionTheSequence ==
    (Scanned /\ elementCount > 0) =>
        /\ Len(sections) = Threads
        /\ IsPartition(sections, elementCount)

\* C3: when IterateWeighted has returned and every range job it submitted has
\* been executed, func has been called exactly once for each index.
C3_WeightedCallsEachIndexOnce ==
    (/\ pc = "returned"
     /\ Len(jobs) = Len(sections)
     /\ \A j \in JobIds : jobs[j].runs = 1)
    => \A i \in Indexes : invoked[i] = 1

\* C4: when WaitForFinish returns after one thread submitted jobs that submit
\* nothing themselves, the queue is empty, no worker holds a job, the active
\* count is 0 and every job has run once (the shared counter equals N).
C4_WaitForFinishReturnsWhenAllDone ==
    (pc = "waited" /\ \A j \in JobIds : jobs[j].kind = "plain") =>
        /\ PendingJobs = <<>>
        /\ ActiveJobCount = 0
        /\ \A t \in Workers : wjob[t] = 0 /\ wpc[t] \notin {"exec", "body", "dec"}
        /\ \A j \in JobIds : jobs[j].runs = 1

C4_Witness ==
    /\ pc = "waited"
    /\ Len(jobs) >= 2
    /\ Threads >= 2
    /\ \A j \in JobIds : jobs[j].kind = "plain" /\ jobs[j].runs = 1

\* C5: when ~KThreadPool has returned, the pending queue is empty and every job
\* that was enqueued has been executed.
C5_DestructorDrainsQueue ==
    pc = "joined" =>
        /\ PendingJobs = <<>>
        /\ \A j \in JobIds : jobs[j].runs >= 1

\* the elements of a sequence
Range(q) == {q[i] : i \in 1..Len(q)}

\* C6: TakeNewJob always claims the most recently enqueued job still pending
\* (job ids are handed out in the order of enqueueing, so that is the largest
\* id in the queue), removes exactly that job, and leaves the others in order.
C6_DequeueIsLifo ==
    [][\A t \in 1..MaxThreads :
          (t \in Workers /\ wjob[t] = 0 /\ wjob'[t] # 0) =>
              /\ \A j \in Range(PendingJobs) : j <= wjob'[t]
              /\ wjob'[t] \in Range(PendingJobs)
              /\ PendingJobs = Append(PendingJobs', wjob'[t])]_vars

C6_Witness ==
    \E t \in Workers :
        /\ wjob[t] # 0
        /\ \E i \in 1..Len(PendingJobs) : PendingJobs[i] < wjob[t]

\* the requested worker count, with 0 standing for the host's core count
Requested == IF poolSize # 0 THEN poolSize ELSE cores

\* C7: the number of worker threads Iterate starts is min(W', elementCount),
\* W' being the requested count or, for 0, the core count; it never exceeds
\* that and is at least 1 when elementCount > 0.  Stated in the weakest
\* reading: for non-negative requests only, and with the pool's minimum of one
\* thread allowed for where min(W', elementCount) is 0.
C7_EffectiveWorkerCount ==
    (pc # "start" /\ poolSize >= 0) =>
        /\ Threads = Max(1, Min(Requested, elementCount))
        /\ elementCount > 0 => Threads >= 1

\* C8: Iterate over an empty sequence calls func never and starts no more than
\* one worker thread.
C8_EmptySequenceStartsOneThread ==
    (pc = "returned" /\ elementCount = 0) =>
        /\ Threads <= 1
        /\ \A j \in JobIds : jobs[j].runs = 0

RECURSIVE SumFrom(_, _)
\* the exact sum of the weights w[i], w[i+1], ...
SumFrom(w, i) == IF i > Len(w) THEN Zero ELSE Sum(w[i], SumFrom(w, i + 1))

\* the summed weight of the indexes a section's job processes
RangeWeight(sec) == SumFrom(SubSeq(weights, sec.Start + 1, sec.End), 1)

MaxOf(w) ==
    IF w = <<>> THEN Zero
    ELSE CHOOSE m \in Range(w) : \A x \in Range(w) : Leq(x, m)

RECURSIVE Times(_, _)
\* n * d, exact
Times(d, n) == IF n = 0 THEN Zero ELSE Sum(d, Times(d, n - 1))

\* C9: every section's summed weight differs from total / workerCount by at
\* most the largest weight of one element (both sides multiplied by the worker
\* count, and the difference taken in both directions, to stay exact).
C9_SectionsWithinOneElementOfTarget ==
    (Scanned /\ elementCount > 0) =>
        \A s \in 1..Len(sections) :
            LET range == Times(RangeWeight(sections[s]), Threads)
                total == SumFrom(weights, 1)
                slack == Times(MaxOf(weights), Threads)
            IN  /\ Leq(range, Sum(total, slack))
                /\ Leq(total, Sum(range, slack))

\* C10: once the destructor has set the destroy flag it returns, and when it
\* has returned every worker has left its loop, none holds a job and
\* ActiveJobCount is 0, so every job that was claimed has been run.
C10_DestructorReturns ==
    /\ bDestroyingPool ~> (pc = "joined")
    /\ [](pc = "joined" =>
            /\ \A t \in Workers : wpc[t] = "done" /\ wjob[t] = 0
            /\ ActiveJobCount = 0
            /\ \A j \in JobIds : j \notin Range(PendingJobs) => jobs[j].runs = 1)

C10_Witness ==
    /\ pc = "joined"
    /\ Threads >= 2
    /\ Len(jobs) >= 2
    /\ \A j \in JobIds : jobs[j].runs = 1

\* C11 as stated: the constructor starts count threads when count > 0,
\* otherwise DefaultThreadCount when count = 0 and that is non-zero, otherwise
\* as many as the host has cores, and in every case at least one.
C11_ThreadCountAsStated ==
    pc # "start" =>
        Threads = Max(1, IF count > 0 THEN count
                         ELSE IF count = 0 /\ DefaultThreadCount # 0
                              THEN DefaultThreadCount
                              ELSE cores)

\* C11, amended: count threads when count > 0; one thread when count < 0; for
\* count = 0, DefaultThreadCount when that is non-zero and otherwise the core
\* count, raised to 1 when not positive.  One worker is started per thread.
C11_ThreadCount ==
    pc # "start" =>
        /\ Threads = (IF count > 0 THEN count
                      ELSE IF count < 0 THEN 1
                      ELSE Max(1, IF DefaultThreadCount # 0
                                  THEN DefaultThreadCount ELSE cores))
        /\ Threads >= 1
        /\ Len(wpc) = Threads

C11_Witness ==
    /\ pc # "start"
    /\ count = 0
    /\ DefaultThreadCount = 0
    /\ cores = 0
    /\ Threads = 1

\* the number of places a job reference is held: queue slots and workers
Holders(j) ==
    Cardinality({i \in 1..Len(PendingJobs) : PendingJobs[i] = j})
        + Cardinality({t \in Workers : wjob[t] = j})

\* C12: a job is in the queue at most once and held by at most one worker,
\* never both; it is executed at most once, and not while it is in the queue;
\* once it has left the queue it is never put back.
C12_ClaimedOnceRunOnce ==
    /\ [](\A j \in JobIds :
            /\ Holders(j) <= 1
            /\ jobs[j].runs <= 1
            /\ j \in Range(PendingJobs) => jobs[j].runs = 0)
    /\ [][\A j \in JobIds :
            j \notin Range(PendingJobs) => j \notin Range(PendingJobs')]_vars

C12_Witness ==
    \E t1 \in Workers, t2 \in Workers :
        /\ t1 # t2
        /\ wjob[t1] # 0
        /\ wjob[t2] # 0
        /\ wpc[t1] = "dec"
        /\ jobs[wjob[t1]].runs = 1

\* C13: when WaitForFinish returns the pool is idle (queue empty, no job held or
\* executing), whatever the jobs do, including a job that submits another job
\* between WaitForFinish's two reads.
C13_WaitForFinishReturnsIdle ==
    pc = "waited" =>
        /\ PendingJobs = <<>>
        /\ ActiveJobCount = 0
        /\ \A t \in Workers : wjob[t] = 0

\* C14: a worker holds QueueMutex only inside a critical section, never while
\* it executes a job; nobody stands at a lock_guard while holding the mutex;
\* whoever holds the mutex is a live thread inside a critical section whose
\* closing step is enabled, so a job submitting to its own pool never deadlocks
\* and the threads are never all blocked on the mutex.
C14_NoLockHeldWhileExecuting ==
    /\ \A t \in Workers :
          /\ QueueMutex = t <=> wpc[t] \in {"locked_take", "locked_spawn"}
          /\ QueueMutex = t => ENABLED (TakeUnderLock(t) \/ SpawnUnderLock(t))
    /\ QueueMutex = Caller <=> pc \in {"locked_add", "locked_pending"}
    /\ QueueMutex = Caller => ENABLED (AddUnderLock \/ PendingUnderLock)
    /\ QueueMutex \in {0, Caller} \cup Workers

C14_Witness ==
    \E t \in Workers :
        /\ wpc[t] = "locked_spawn"
        /\ QueueMutex = t
        /\ pc = "wait_pending"

\* the workers between the claim of a job and the decrement that follows it
Claimants ==
    {t \in Workers : wpc[t] \in {"exec", "locked_spawn", "body", "dec"}}

\* C15: ActiveJobCount is the number of workers that have claimed a job and not
\* yet decremented; it lies between 0 and the thread count; it goes up by one
\* exactly in the step that removes a job from the queue, which the claiming
\* worker takes while it holds QueueMutex.
C15_ActiveJobCountIsClaimants ==
    /\ [](/\ ActiveJobCount = Cardinality(Claimants)
          /\ ActiveJobCount >= 0
          /\ ActiveJobCount <= Threads)
    /\ [][/\ Len(PendingJobs') < Len(PendingJobs) =>
                /\ ActiveJobCount' = ActiveJobCount + 1
                /\ Len(PendingJobs') = Len(PendingJobs) - 1
                /\ QueueMutex \in Workers
          /\ ActiveJobCount' > ActiveJobCount =>
                Len(PendingJobs') < Len(PendingJobs)]_vars

C15_Witness ==
    /\ ActiveJobCount = 2
    /\ Threads = 2
    /\ \E t \in Workers : wpc[t] = "dec"

\* C16: once the destructor has returned, every auto-delete job has been freed
\* exactly once, and no job is ever freed twice or run after it was freed.
C16_AutoDeleteJobsFreedOnce ==
    /\ \A j \in JobIds : jobs[j].frees <= 1 /\ jobs[j].runs <= 1
    /\ pc = "joined" =>
          \A j \in JobIds : jobs[j].bDeleteOnFinish => jobs[j].frees = 1

\* C17: once Iterate has returned, and its jobs vector is gone, every worker
\* has left its loop and holds no job, and from then on no job is claimed or
\* executed: the workers are joined before the vector goes out of scope.
C17_JobsOutliveThePool ==
    /\ [](pc \in {"joined", "returned"} =>
             \A t \in Workers : wpc[t] = "done" /\ wjob[t] = 0)
    /\ [][pc = "returned" => UNCHANGED <<jobs, wjob, wpc, invoked, PendingJobs>>]_vars

C17_Witness ==
    /\ pc = "returned"
    /\ Threads >= 2
    /\ Len(jobs) >= 2
    /\ \A j \in JobIds : jobs[j].runs = 1

\* C18: bDestroyingPool is false from construction until the destructor runs,
\* and once it is true no step makes it false again, so IsPendingDestroy never
\* answers false after it has answered true.
C18_DestroyFlagMonotonic ==
    /\ [](pc \in {"start", "run", "wait_pending", "wait_active", "waited"} =>
             ~bDestroyingPool)
    /\ [][bDestroyingPool => bDestroyingPool']_vars

C18_Witness ==
    /\ bDestroyingPool
    /\ pc = "joined"
    /\ \E j \in JobIds : jobs[j].runs = 1

\* C19: for every sequence of at least one element, every worker count and
\* all non-negative weights, the scan closes no more sections than were
\* allocated and never writes past the end of `sections`.
C19_ScanStaysInsideSections ==
    (Scanned /\ elementCount > 0) =>
        /\ ~oob
        /\ sectionIndex <= Len(sections)

\* C20: a worker leaves its loop only while bDestroyingPool is set, and only
\* from the flag check that follows a dequeue attempt on an empty queue; while
\* the pool is not being destroyed all the threads the constructor started are
\* in their loops.
C20_WorkersLiveUntilDestroy ==
    /\ []((pc # "start" /\ ~bDestroyingPool) =>
             /\ Len(wpc) = Threads
             /\ \A t \in Workers : wpc[t] # "done")
    /\ [][\A t \in Workers :
             (wpc[t] # "done" /\ wpc'[t] = "done") =>
                 bDestroyingPool /\ wpc[t] = "check"]_vars

C20_Witness ==
    /\ pc = "join"
    /\ \E t \in Workers : wpc[t] = "done"
    /\ \E t \in Workers : wpc[t] # "done"
    /\ \E j \in JobIds : jobs[j].runs = 1

====
